---- MODULE Spec2Model ----
(***************************************************************************)
(* nebulazone: the worker channel (src/utils/worker.ts), the drop zone's   *)
(* intake handlers (src/components/DropZone.tsx) and the preview sizing    *)
(* (src/components/Preview.tsx), as state machines.                        *)
(***************************************************************************)
EXTENDS Integers, Sequences, FiniteSets, TLC

(***************************************************************************)
(* State.                                                                  *)
(***************************************************************************)
\* The worker channel (createWorker)
VARIABLES
  calls,        \* the post() calls made so far: <<[id, message, cb]>>; cb is the
                \* sequence of messages the call's callback cb was invoked with
  onmessage,    \* worker.onmessage: 0 when unset, else the call whose closure
                \* (its id and its cb) is the installed handler
  workerQueue,  \* request frames posted to the worker, not yet handled by it
  decoding,     \* createImageBitmap promises pending inside the worker
  mainQueue,    \* response frames posted by the worker, not yet dispatched
  workerAlive,  \* the Worker runs (worker.terminate() has not been called)
  urlRevoked,   \* URL.revokeObjectURL(workerURL) has been called
  strays,       \* messages posted by the worker on its own so far
  transfers     \* the transfer() calls made so far: <<[message, cb]>>, cb as
                \* in calls

wvars == <<calls, onmessage, workerQueue, decoding, mainQueue, workerAlive,
           urlRevoked, strays, transfers>>

\* The drop zone (DropZone)
VARIABLES
  props,                 \* the props of the latest render
  filterValidFilesMemo,  \* what the memoized filterValidFiles closure captured
  handleDropMemo,        \* what the memoized handleDrop closure captured
  handleDragEnterMemo,   \* what the memoized handleDragEnter closure captured
  handleDragEnterDropZoneMemo,  \* ... the handleDragEnterDropZone closure
  handleDragLeaveDropZoneMemo,  \* ... the handleDragLeaveDropZone closure
  dragging,              \* the files of the drag in progress over the page,
                         \* None when there is none
  event,                 \* the event whose handler has just run: Some(fileList)
                         \* after handleDrop, None otherwise
  drop,                  \* locals of the handleDrop run that has just ended:
                         \* None when it returned at `if (disabled)` (or no
                         \* run has just ended), else Some([files,
                         \* acceptedFiles, rejectedFiles, errors])
  cbLog,                 \* the prop callbacks that run invoked, in order
  dragEnter,             \* useState
  hasError,              \* useState
  draggedRejectedFiles,  \* useRef<File[]>
  panel,                 \* the props [panelLayout, panelAspectRatio] of the
                         \* latest render
  contextValue           \* what that render provided to DropZoneContext:
                         \* Some([panelLayout, panelAspectRatio]), or None
                         \* when the render failed

pvars == <<panel, contextValue>>

\* what the event handlers read and write
hvars == <<props, filterValidFilesMemo, handleDropMemo, handleDragEnterMemo,
           handleDragEnterDropZoneMemo, handleDragLeaveDropZoneMemo, dragging,
           event, drop, cbLog, dragEnter, hasError, draggedRejectedFiles>>

dvars == <<hvars, pvars>>

\* The preview (Preview)
VARIABLES
  sizing,      \* the inputs: [dimensions, panelLayout, containerWidth, imageSize]
  itemHeight,  \* the height useItemRescale returned last: None before the
               \* first computation, else Some(<<numerator, denominator>>)
  structure,   \* the prop: [allowImagePreview, file]
  imagePreviewMaxFileSize,  \* dimensions.imagePreviewMaxFileSize
  absentAllows,         \* what usePreviewChecks makes of options that carry
                        \* no allowImagePreview: allowed, or not
  isPreviewDisallowed,  \* what usePreviewChecks returned last
  imagePreview          \* <ImagePreview /> is in the rendered output

\* the inputs of the preview checks, fixed while the Preview is mounted
cvars == <<structure, imagePreviewMaxFileSize, absentAllows>>

svars == <<sizing, itemHeight, cvars, isPreviewDisallowed, imagePreview>>

vars == <<wvars, dvars, svars>>

(***************************************************************************)
(* Bounds of the model.                                                    *)
(***************************************************************************)
\* post() calls issued on the channel in one behaviour
MaxCalls == 3
\* messages a worker function other than BitmapWorker posts on its own
MaxStray == 1
\* transfer() calls issued on the channel in one behaviour
MaxTransfers == 1

\* An optional value: None when absent, Some(v) when present, Val of it is v.
None == <<>>
Some(v) == <<v>>
Val(x) == x[1]

\* Rationals <<n, d>>, d > 0: the sizing arithmetic is not integral.
Rat(n, d) == <<n, d>>
RMul(a, b) == <<a[1] * b[1], a[2] * b[2]>>
RDiv(a, b) == <<a[1] * b[2], a[2] * b[1]>>
RLess(a, b) == a[1] * b[2] < b[1] * a[2]
RLeq(a, b) == a[1] * b[2] <= b[1] * a[2]

\* A string is the sequence of its characters.
Digits == {"0", "1", "2", "3", "4", "5", "6", "7", "8", "9"}

DigitValue(c) ==
  CASE c = "0" -> 0 [] c = "1" -> 1 [] c = "2" -> 2 [] c = "3" -> 3
    [] c = "4" -> 4 [] c = "5" -> 5 [] c = "6" -> 6 [] c = "7" -> 7
    [] c = "8" -> 8 [] c = "9" -> 9

IsNumber(str) == str # <<>> /\ \A i \in DOMAIN str : str[i] \in Digits

RECURSIVE ParseNumber(_)
ParseNumber(str) ==
  IF str = <<>> THEN 0
  ELSE 10 * ParseNumber(SubSeq(str, 1, Len(str) - 1)) + DigitValue(str[Len(str)])

\* getNumericAspectRatioFromString("W:H") = Some(W / H); None: the call
\* fails with InvalidFormat, the string does not match number:number.
getNumericAspectRatioFromString(ratio) ==
  LET colons == {i \in DOMAIN ratio :
                   /\ ratio[i] = ":"
                   /\ IsNumber(SubSeq(ratio, 1, i - 1))
                   /\ IsNumber(SubSeq(ratio, i + 1, Len(ratio)))}
  IN  IF colons = {} THEN None
      ELSE LET i == CHOOSE j \in colons : TRUE
           IN  Some(Rat(ParseNumber(SubSeq(ratio, 1, i - 1)),
                        ParseNumber(SubSeq(ratio, i + 1, Len(ratio)))))

(***************************************************************************)
(* DROP ZONE CONTEXT  (src/components/DropZone.tsx, getPanelAspectRatio)   *)
(***************************************************************************)
MaxRatioLen == 3

\* The characters a configured ratio string is made of.
RatioChars == {"1", "2", ":", "x"}

\* The strings of at most MaxRatioLen characters.
RatioStrings == UNION {[1..n -> RatioChars] : n \in 0..MaxRatioLen}

\* panelAspectRatio?: string, None when the prop is not given.
PanelAspectRatios == {None} \cup {Some(str) : str \in RatioStrings}

PanelLayouts == {"integrated", "compact", "circle"}

\* getPanelAspectRatio without the test of the layout.
getPanelAspectRatioAlwaysParsed(panelLayout, panelAspectRatio) ==
  IF panelAspectRatio = None THEN None
  ELSE getNumericAspectRatioFromString(Val(panelAspectRatio))

\* getPanelAspectRatio(): 1 for the circle layout, else the parsed string
\* (`undefined as string` is no number:number string).  None: it failed.
getPanelAspectRatio(panelLayout, panelAspectRatio) ==
  IF panelLayout = "circle" THEN Some(Rat(1, 1))
  ELSE IF panelAspectRatio = None THEN None
  ELSE getNumericAspectRatioFromString(Val(panelAspectRatio))

\* const contextValue = {..., panelLayout, panelAspectRatio:
\* getPanelAspectRatio(), ...}; a failing getPanelAspectRatio fails the
\* render and nothing is provided.
NewContextValue(p) ==
  LET aspectRatio == getPanelAspectRatio(p.panelLayout, p.panelAspectRatio)
  IN  IF aspectRatio = None THEN None
      ELSE Some([panelLayout |-> p.panelLayout,
                 panelAspectRatio |-> Val(aspectRatio)])

\* The drop zone mounted with any layout and any ratio string.
PInit ==
  /\ panel \in [panelLayout : PanelLayouts, panelAspectRatio : PanelAspectRatios]
  /\ contextValue = NewContextValue(panel)

\* The drop zone mounted with the default layout and no ratio string.
PRest ==
  /\ panel = [panelLayout |-> "integrated", panelAspectRatio |-> None]
  /\ contextValue = NewContextValue(panel)

\* A render of DropZone with another layout or another ratio string.
RenderPanel(panelLayout, panelAspectRatio) ==
  /\ panel' = [panelLayout |-> panelLayout, panelAspectRatio |-> panelAspectRatio]
  /\ panel' # panel
  /\ contextValue' = NewContextValue(panel')
  /\ UNCHANGED hvars
  /\ UNCHANGED <<wvars, svars>>

PNext ==
  \E panelLayout \in PanelLayouts : \E panelAspectRatio \in PanelAspectRatios :
    RenderPanel(panelLayout, panelAspectRatio)

(***************************************************************************)
(* WORKER CHANNEL  (src/utils/worker.ts)                                   *)
(***************************************************************************)

\* The values Math.random().toString(36).substring(2, 12) can return: a
\* random choice, which nothing compares with the ids in use.
getUniqueId == {"a", "b"}

\* The payloads the caller posts: image files, one of them not decodable.
Files == {"f1", "f2", "bad"}
Decodable(file) == file # "bad"

\* createImageBitmap(file) of a decodable file.
Bitmap(file) == <<"bitmap", file>>

Frame(id, message, call) == [id |-> id, message |-> message, call |-> call]

WInit ==
  /\ calls = <<>>
  /\ onmessage = 0
  /\ workerQueue = <<>>
  /\ decoding = {}
  /\ mainQueue = <<>>
  /\ workerAlive = TRUE
  /\ urlRevoked = FALSE
  /\ strays = 0
  /\ transfers = <<>>

\* post(message, cb): a fresh random id, worker.onmessage REPLACED by the
\* closure of this call, and the request posted (a terminated worker
\* discards what is posted to it).
Post(message) ==
  /\ Len(calls) < MaxCalls
  /\ \E id \in getUniqueId :
       /\ calls' = Append(calls, [id |-> id, message |-> message, cb |-> <<>>])
       /\ onmessage' = Len(calls) + 1
       /\ workerQueue' = IF workerAlive
                         THEN Append(workerQueue, Frame(id, message, Len(calls) + 1))
                         ELSE workerQueue
  /\ UNCHANGED <<decoding, mainQueue, workerAlive, urlRevoked, strays>>
  /\ UNCHANGED transfers
  /\ UNCHANGED <<dvars, svars>>

\* BitmapWorker's self.onmessage: starts createImageBitmap(e.data.message.file).
WorkerReceive ==
  /\ workerAlive
  /\ workerQueue # <<>>
  /\ decoding' = decoding \cup {Head(workerQueue)}
  /\ workerQueue' = Tail(workerQueue)
  /\ UNCHANGED <<calls, onmessage, mainQueue, workerAlive, urlRevoked, strays>>
  /\ UNCHANGED transfers
  /\ UNCHANGED <<dvars, svars>>

\* The promise fulfils: .then posts {id: e.data.id, message: bitmap}.
DecodeResolve(r) ==
  /\ workerAlive
  /\ r \in decoding
  /\ Decodable(r.message)
  /\ decoding' = decoding \ {r}
  /\ mainQueue' = Append(mainQueue, Frame(r.id, Bitmap(r.message), r.call))
  /\ UNCHANGED <<calls, onmessage, workerQueue, workerAlive, urlRevoked, strays>>
  /\ UNCHANGED transfers
  /\ UNCHANGED <<dvars, svars>>

\* The promise rejects: there is no rejection handler, nothing is posted.
DecodeReject(r) ==
  /\ workerAlive
  /\ r \in decoding
  /\ ~Decodable(r.message)
  /\ decoding' = decoding \ {r}
  /\ UNCHANGED <<calls, onmessage, workerQueue, mainQueue, workerAlive,
                 urlRevoked, strays>>
  /\ UNCHANGED transfers
  /\ UNCHANGED <<dvars, svars>>

\* The main thread dispatches the next response to worker.onmessage:
\* if (e.data.id === id) cb(e.data.message).
Deliver ==
  /\ workerAlive
  /\ mainQueue # <<>>
  /\ calls' = IF onmessage # 0 /\ Head(mainQueue).id = calls[onmessage].id
              THEN [calls EXCEPT ![onmessage].cb = Append(@, Head(mainQueue).message)]
              ELSE calls
  /\ mainQueue' = Tail(mainQueue)
  /\ UNCHANGED <<onmessage, workerQueue, decoding, workerAlive, urlRevoked, strays>>
  /\ UNCHANGED transfers
  /\ UNCHANGED <<dvars, svars>>

\* terminate() without its worker.terminate(): the worker keeps running.
TerminateRevokeOnly ==
  /\ ~urlRevoked
  /\ urlRevoked' = TRUE
  /\ UNCHANGED <<calls, onmessage, workerQueue, decoding, mainQueue, workerAlive, strays>>
  /\ UNCHANGED transfers
  /\ UNCHANGED <<dvars, svars>>

\* terminate(): worker.terminate() stops the worker, and nothing queued in
\* either direction is dispatched any more; then the blob URL is revoked.
Terminate ==
  /\ ~urlRevoked
  /\ workerAlive' = FALSE
  /\ urlRevoked' = TRUE
  /\ UNCHANGED <<calls, onmessage, workerQueue, decoding, mainQueue, strays>>
  /\ UNCHANGED transfers
  /\ UNCHANGED <<dvars, svars>>

\* createWorker(fn) runs any fn: a worker function may post a message of
\* its own, with any id.
StrayMessage(id) ==
  /\ workerAlive
  /\ strays < MaxStray
  /\ strays' = strays + 1
  /\ mainQueue' = Append(mainQueue, Frame(id, "stray", 0))
  /\ UNCHANGED <<calls, onmessage, workerQueue, decoding, workerAlive, urlRevoked>>
  /\ UNCHANGED transfers
  /\ UNCHANGED <<dvars, svars>>

\* transfer(message, cb): the body is empty; neither the worker nor
\* worker.onmessage is touched, and nothing keeps cb.
transfer(message) ==
  /\ Len(transfers) < MaxTransfers
  /\ transfers' = Append(transfers, [message |-> message, cb |-> <<>>])
  /\ UNCHANGED <<calls, onmessage, workerQueue, decoding, mainQueue, workerAlive,
                 urlRevoked, strays>>
  /\ UNCHANGED <<dvars, svars>>

WNext ==
  \/ \E message \in Files : Post(message)
  \/ WorkerReceive
  \/ \E r \in decoding : DecodeResolve(r)
  \/ \E r \in decoding : DecodeReject(r)
  \/ Deliver
  \/ Terminate


(***************************************************************************)
(* Properties of the worker channel.                                       *)
(***************************************************************************)
Posted == DOMAIN calls

InFlight == {workerQueue[i] : i \in DOMAIN workerQueue} \cup decoding
              \cup {mainQueue[i] : i \in DOMAIN mainQueue}

\* The request of call k, or its response, is still on its way.
Awaiting(k) == \E f \in InFlight : f.call = k

\* terminate() has not been called.
Live == workerAlive /\ ~urlRevoked

\* Nothing is on its way in either direction.
Quiet == workerQueue = <<>> /\ decoding = {} /\ mainQueue = <<>>

DistinctIds == \A j, k \in Posted : j # k => calls[j].id # calls[k].id

\* C1: on a live channel whose worker has answered every request exactly
\* once (every posted file decodes, nothing is on its way any more), every
\* call's callback has been invoked exactly once, with the response to its
\* own request; and no callback is ever invoked twice.  Stated for calls
\* with pairwise distinct ids, the case the claim is about.
C1_EachCallbackOnceWithOwnResponse ==
  DistinctIds =>
    /\ \A k \in Posted : Len(calls[k].cb) <= 1
    /\ (Live /\ Quiet /\ \A k \in Posted : Decodable(calls[k].message))
         => \A k \in Posted : calls[k].cb = <<Bitmap(calls[k].message)>>

\* C2: on a live channel no two calls that await their responses at the
\* same time have the same correlation id.
C2_OutstandingIdsDistinct ==
  Live => \A j, k \in Posted :
            (j # k /\ Awaiting(j) /\ Awaiting(k)) => calls[j].id # calls[k].id

\* C3: once terminate() has been called no callback is invoked: in every
\* later step the callbacks of the calls posted so far are left as they
\* were and a call posted in that step has not been called back.
C3_NoCallbackAfterTerminate ==
  [][urlRevoked =>
       \A k \in DOMAIN calls' :
          calls'[k].cb = IF k \in Posted THEN calls[k].cb ELSE <<>>]_wvars

\* C3 witness: after terminate(), the response to call 1 was already
\* produced and sits undelivered, and call 2, posted after terminate() with
\* the very id of that response, is the installed handler.
C3_Witness ==
  /\ urlRevoked
  /\ Len(calls) = 2 /\ onmessage = 2
  /\ workerQueue = <<>> /\ decoding = {}
  /\ Len(mainQueue) = 1 /\ mainQueue[1].call = 1
  /\ mainQueue[1].id = calls[2].id
  /\ Decodable(calls[2].message)
  /\ calls[1].cb = <<>> /\ calls[2].cb = <<>>

\* The ids of the calls whose callback has not been invoked yet.
OutstandingIds == {calls[k].id : k \in {j \in Posted : calls[j].cb = <<>>}}

\* C8: the dispatch of a response whose id is the id of no outstanding call
\* invokes no callback and leaves the outstanding calls as they were.
C8_UnknownIdDropped ==
  [][(mainQueue # <<>> /\ mainQueue' = Tail(mainQueue)
        /\ Head(mainQueue).id \notin OutstandingIds)
       => calls' = calls]_wvars

\* C9: on a live channel running BitmapWorker, once nothing is on its way
\* any more every posted call has had its callback invoked (with the bitmap
\* or with an error outcome): no caller is left waiting forever.
C9_EveryCallAnswered ==
  (Live /\ Quiet) => \A k \in Posted : calls[k].cb # <<>>

\* C15: a call whose callback has been invoked is no longer pending: no
\* later step, whatever message it dispatches, invokes that callback again.
C15_CallbackNotInvokedAgain ==
  [][\A k \in Posted : calls[k].cb # <<>> => calls'[k].cb = calls[k].cb]_wvars

\* C14: transfer(message, cb) sends the message to the worker, and cb is
\* invoked when the worker responds: on a live channel, once nothing is on
\* its way any more, the callback of every transfer of a decodable file has
\* been invoked.
C14_TransferSendsAndAnswers ==
  /\ [][(Len(transfers') > Len(transfers) /\ workerAlive) =>
          /\ Len(workerQueue') = Len(workerQueue) + 1
          /\ workerQueue'[Len(workerQueue')].message
               = transfers'[Len(transfers')].message]_wvars
  /\ [](Live /\ Quiet =>
          \A k \in DOMAIN transfers :
             Decodable(transfers[k].message) => transfers[k].cb # <<>>)

(***************************************************************************)
(* DROP ZONE  (src/components/DropZone.tsx)                                *)
(***************************************************************************)
\* files in one dropped batch
MaxBatch == 3


\* `${number}${ByteUnits}` as [num, unit]; parseSize gives its bytes.
UnitBytes(unit) ==
  CASE unit = "B" -> 1
    [] unit = "KB" -> 1024
    [] unit = "MB" -> 1024 * 1024
    [] unit = "GB" -> 1024 * 1024 * 1024

parseSize(sizeString) == sizeString.num * UnitBytes(sizeString.unit)

Size(num, unit) == [num |-> num, unit |-> unit]

\* The files a user can drop: two images of 6MB and a text file of 12MB.
DropFiles ==
  { [name |-> "a.png", ext |-> ".png", type |-> <<"image", "png">>,
     size |-> 6 * UnitBytes("MB")],
    [name |-> "b.png", ext |-> ".png", type |-> <<"image", "png">>,
     size |-> 6 * UnitBytes("MB")],
    [name |-> "c.txt", ext |-> ".txt", type |-> <<"text", "plain">>,
     size |-> 12 * UnitBytes("MB")] }

\* getAllDragedFiles(event): the event's files, as an array.  An event
\* carries up to MaxBatch different files in any order.
FileLists ==
  {l \in UNION {[1..n -> DropFiles] : n \in 0..MaxBatch} :
     \A i, j \in DOMAIN l : i # j => l[i] # l[j]}

\* The values each prop takes.  accept is the set of its comma-separated
\* tokens: <<"ext", e>>, <<"mime", category, subtype>> or <<"wild", category>>.
PropValues(prop) ==
  CASE prop = "accept" -> {None, Some({<<"wild", "image">>})}
    [] prop = "minFileSize" -> {None, Some(Size(8, "MB"))}
    [] prop = "maxFileSize" -> {None, Some(Size(10, "MB"))}
    [] prop = "maxTotalFileSize" -> {None, Some(Size(10, "MB"))}
    [] OTHER -> BOOLEAN

PropNames == {"accept", "allowMultiple", "minFileSize", "maxFileSize",
              "maxTotalFileSize", "disabled", "onDrop", "onDropAccepted",
              "onDropRejected"}

\* The props a later render changes.  minFileSize is read and captured
\* exactly where maxFileSize is, so the renders vary maxFileSize alone;
\* renders that change disabled are those of DragRenderProps.
RenderProps == PropNames \ {"minFileSize", "disabled"}

\* AcceptPatternMatcher (spec 4.1): any token matches; no spec matches all.
TokenMatches(file, token) ==
  CASE token[1] = "ext" -> file.ext = token[2]
    [] token[1] = "mime" -> file.type = <<token[2], token[3]>>
    [] token[1] = "wild" -> file.type[1] = token[2]

matches(file, accept) ==
  accept = None \/ Val(accept) = {}
    \/ \E token \in Val(accept) : TokenMatches(file, token)

\* The first rule of spec 4.3 step 1 that the file fails, "None" when it
\* passes them all.
FailedRule(file, accept, minFileSize, maxFileSize) ==
  IF ~matches(file, accept) THEN "TypeRejected"
  ELSE IF minFileSize # None /\ file.size < parseSize(Val(minFileSize))
       THEN "SizeTooSmall"
  ELSE IF maxFileSize # None /\ file.size > parseSize(Val(maxFileSize))
       THEN "SizeTooLarge"
  ELSE "None"

\* checkFileAcceptance(fileList, accept, maxFileSize, minFileSize)
checkFileAcceptance(fileList, accept, maxFileSize, minFileSize) ==
  LET valid(file) == FailedRule(file, accept, minFileSize, maxFileSize) = "None"
      invalid(file) == ~valid(file)
  IN  [acceptedFiles |-> SelectSeq(fileList, valid),
       rejectedFiles |-> SelectSeq(fileList, invalid)]

\* getValidationErrors(rejectedFiles, accept, minFileSize, maxFileSize): one
\* entry per rejected file, with the rule the file fails; the function is
\* given nothing but the files and these three bounds.
getValidationErrors(rejectedFiles, accept, minFileSize, maxFileSize) ==
  [i \in DOMAIN rejectedFiles |->
     [file |-> rejectedFiles[i],
      kind |-> FailedRule(rejectedFiles[i], accept, minFileSize, maxFileSize)]]

\* filterValidFiles as memoized with the values c it captured.
filterValidFiles(c, fileList) ==
  LET r == checkFileAcceptance(fileList, c.accept, c.maxFileSize, c.minFileSize)
  IN  IF ~c.allowMultiple /\ Len(r.acceptedFiles) > 0
      THEN [files |-> fileList,
            acceptedFiles |-> <<Head(r.acceptedFiles)>>,
            rejectedFiles |-> r.rejectedFiles \o Tail(r.acceptedFiles)]
      ELSE [files |-> fileList,
            acceptedFiles |-> r.acceptedFiles,
            rejectedFiles |-> r.rejectedFiles]

\* useCallback(filterValidFiles, [accept, allowMultiple, draggedRejectedFiles])
NewFilterValidFiles(p) ==
  [accept |-> p.accept, allowMultiple |-> p.allowMultiple,
   maxFileSize |-> p.maxFileSize, minFileSize |-> p.minFileSize]

\* useCallback(handleDrop, [disabled, onDrop, accept, onDropAccepted,
\* onDropRejected]): the closure holds these props and the filterValidFiles
\* of the render that made it.
NewHandleDrop(p, filter) ==
  [disabled |-> p.disabled, onDrop |-> p.onDrop, accept |-> p.accept,
   onDropAccepted |-> p.onDropAccepted, onDropRejected |-> p.onDropRejected,
   minFileSize |-> p.minFileSize, maxFileSize |-> p.maxFileSize,
   filterValidFiles |-> filter]

\* What a new handleDragEnter closure captures.
NewHandleDragEnter(p, filter) ==
  [disabled |-> p.disabled, onDragEnter |-> p.onDragEnter,
   filterValidFiles |-> filter]

\* What new handleDragEnterDropZone and handleDragLeaveDropZone closures
\* capture.
NewHandleDragEnterDropZone(p) == [disabled |-> p.disabled]
NewHandleDragLeaveDropZone(p) == [disabled |-> p.disabled]

\* The closures of the first render, no drag in progress, no handler run.
Mounted ==
  /\ filterValidFilesMemo = NewFilterValidFiles(props)
  /\ handleDropMemo = NewHandleDrop(props, filterValidFilesMemo)
  /\ handleDragEnterMemo = NewHandleDragEnter(props, filterValidFilesMemo)
  /\ handleDragEnterDropZoneMemo = NewHandleDragEnterDropZone(props)
  /\ handleDragLeaveDropZoneMemo = NewHandleDragLeaveDropZone(props)
  /\ dragging = None
  /\ event = None
  /\ drop = None
  /\ cbLog = <<>>
  /\ dragEnter = FALSE
  /\ hasError = FALSE
  /\ draggedRejectedFiles = <<>>

\* The drop zone mounted with the default props, but for minFileSize and
\* disabled, which the renders of RenderProps leave as they are.
DInit ==
  /\ props \in [accept : {None}, allowMultiple : {TRUE},
                 minFileSize : PropValues("minFileSize"),
                 maxFileSize : {None}, maxTotalFileSize : {None},
                 disabled : PropValues("disabled"),
                 onDrop : {FALSE}, onDropAccepted : {FALSE},
                 onDropRejected : {FALSE}, onDragEnter : {FALSE},
                 onDragOver : {FALSE}, onDragLeave : {FALSE}]
  /\ Mounted
  /\ PRest

\* A render of DropZone with one prop changed (or none); newCallbacks: the
\* parent passes new function objects for the callbacks it provides.
\* useCallback keeps a closure unless one of its dependencies changed.
Render(prop, value, newCallbacks) ==
  LET p == [props EXCEPT ![prop] = value]
      filterChanged == p.accept # props.accept \/ p.allowMultiple # props.allowMultiple
      filter == IF filterChanged THEN NewFilterValidFiles(p) ELSE filterValidFilesMemo
      dropChanged == \/ p.disabled # props.disabled
                     \/ p.accept # props.accept
                     \/ p.onDrop # props.onDrop
                     \/ p.onDropAccepted # props.onDropAccepted
                     \/ p.onDropRejected # props.onDropRejected
                     \/ (newCallbacks /\ (p.onDrop \/ p.onDropAccepted \/ p.onDropRejected))
      enterChanged == \/ p.disabled # props.disabled
                      \/ p.onDragEnter # props.onDragEnter
                      \/ (newCallbacks /\ p.onDragEnter)
  IN  /\ props' = p
      /\ filterValidFilesMemo' = filter
      /\ handleDropMemo' = IF dropChanged THEN NewHandleDrop(p, filter) ELSE handleDropMemo
      /\ handleDragEnterMemo' = IF enterChanged THEN NewHandleDragEnter(p, filter)
                                ELSE handleDragEnterMemo
      /\ UNCHANGED <<handleDragEnterDropZoneMemo, handleDragLeaveDropZoneMemo,
                     dragging>>
      /\ event' = None
      /\ drop' = None
      /\ cbLog' = <<>>
      /\ UNCHANGED <<dragEnter, hasError, draggedRejectedFiles>>
      /\ UNCHANGED <<pvars, wvars, svars>>

Call(fn, args) == [fn |-> fn, args |-> args]

\* handleDrop with `if (onDropAccepted)` for
\* `if (acceptedFiles.length && onDropAccepted)`.
DropCallbacksNoLengthTest(h, r, errors) ==
  (IF h.onDrop
   THEN <<Call("onDrop", <<r.files, r.acceptedFiles, r.rejectedFiles, errors>>)>>
   ELSE <<>>)
  \o (IF h.onDropAccepted
      THEN <<Call("onDropAccepted", <<r.acceptedFiles>>)>> ELSE <<>>)
  \o (IF Len(r.rejectedFiles) # 0 /\ h.onDropRejected
      THEN <<Call("onDropRejected", <<r.rejectedFiles>>)>> ELSE <<>>)

\* The prop callbacks handleDrop invokes, in order, for the lists r.
DropCallbacks(h, r, errors) ==
  (IF h.onDrop
   THEN <<Call("onDrop", <<r.files, r.acceptedFiles, r.rejectedFiles, errors>>)>>
   ELSE <<>>)
  \o (IF Len(r.acceptedFiles) # 0 /\ h.onDropAccepted
      THEN <<Call("onDropAccepted", <<r.acceptedFiles>>)>> ELSE <<>>)
  \o (IF Len(r.rejectedFiles) # 0 /\ h.onDropRejected
      THEN <<Call("onDropRejected", <<r.rejectedFiles>>)>> ELSE <<>>)

\* The render that follows a handler's state updates: handleDragEnter has
\* dragEnter among its dependencies and is renewed when dragEnter changed;
\* no dependency of another closure is state.
Rerender ==
  /\ handleDragEnterMemo' =
       IF dragEnter' # dragEnter
       THEN NewHandleDragEnter(props, filterValidFilesMemo)
       ELSE handleDragEnterMemo
  /\ UNCHANGED <<props, filterValidFilesMemo, handleDropMemo,
                 handleDragEnterDropZoneMemo, handleDragLeaveDropZoneMemo>>

\* handleDrop(event), the handler of the latest render, on the drop that
\* ends the drag in progress or on an input change carrying fileList.
handleDrop(fileList) ==
  LET h == handleDropMemo
      r == filterValidFiles(h.filterValidFiles, fileList)
      errors == getValidationErrors(r.rejectedFiles, h.accept, h.minFileSize,
                                    h.maxFileSize)
  IN  /\ UNCHANGED <<pvars, wvars, svars>>
      /\ dragging \in {None, Some(fileList)}
      /\ dragging' = None
      /\ event' = Some(fileList)
      /\ IF h.disabled
           THEN /\ drop' = None
                /\ cbLog' = <<>>
                /\ UNCHANGED <<dragEnter, hasError, draggedRejectedFiles>>
           ELSE /\ drop' = Some([files |-> r.files,
                                 acceptedFiles |-> r.acceptedFiles,
                                 rejectedFiles |-> r.rejectedFiles,
                                 errors |-> errors])
                /\ cbLog' = DropCallbacks(h, r, errors)
                /\ hasError' = FALSE
                /\ dragEnter' = FALSE
                /\ draggedRejectedFiles' = <<>>
      /\ Rerender

\* handleDragEnter(event), the document's dragenter listener.
handleDragEnter(fileList) ==
  LET h == handleDragEnterMemo
      r == filterValidFiles(h.filterValidFiles, fileList)
  IN  /\ draggedRejectedFiles' =
           IF ~h.disabled /\ Len(r.rejectedFiles) > 0 THEN r.rejectedFiles
           ELSE draggedRejectedFiles
      /\ cbLog' = IF ~h.disabled /\ h.onDragEnter
                  THEN <<Call("onDragEnter", <<>>)>> ELSE <<>>

\* handleDragLeave(event), the document's dragleave listener; its
\* dependencies [disabled, onDragLeave] are all it reads.
handleDragLeave ==
  cbLog' = IF ~props.disabled /\ props.onDragLeave
           THEN <<Call("onDragLeave", <<>>)>> ELSE <<>>

\* handleDragOver(event), the document's dragover listener; its
\* dependencies [disabled, onDragOver] are all it reads.
handleDragOver ==
  cbLog' = IF ~props.disabled /\ props.onDragOver
           THEN <<Call("onDragOver", <<>>)>> ELSE <<>>

\* handleDragEnterDropZone(event), onDragEnter of the drop zone's div.
handleDragEnterDropZone ==
  LET h == handleDragEnterDropZoneMemo
  IN  /\ hasError' = IF ~h.disabled /\ Len(draggedRejectedFiles) > 0 THEN TRUE
                     ELSE hasError
      /\ dragEnter' = IF ~h.disabled THEN TRUE ELSE dragEnter

\* handleDragLeaveDropZone without its setHasError(false).
handleDragLeaveDropZoneKeepsError(contains) ==
  LET h == handleDragLeaveDropZoneMemo
  IN  /\ dragEnter' = IF ~h.disabled /\ ~contains THEN FALSE ELSE dragEnter
      /\ UNCHANGED hasError

\* handleDragLeaveDropZone(event), onDragLeave of the drop zone's div;
\* contains: event.currentTarget.contains(event.relatedTarget).
handleDragLeaveDropZone(contains) ==
  LET h == handleDragLeaveDropZoneMemo
  IN  /\ dragEnter' = IF ~h.disabled /\ ~contains THEN FALSE ELSE dragEnter
      /\ hasError' = IF ~h.disabled /\ ~contains THEN FALSE ELSE hasError

\* A drag event other than a drop: no handleDrop run has just ended.
DragEvent ==
  /\ event' = None
  /\ drop' = None
  /\ Rerender
  /\ UNCHANGED <<pvars, wvars, svars>>

\* dragenter on an element outside the drop zone: a drag of fileList comes
\* over the page, or the drag in progress moves on.
DragEnterPage(fileList) ==
  /\ dragging \in {None, Some(fileList)}
  /\ dragging' = Some(fileList)
  /\ handleDragEnter(fileList)
  /\ UNCHANGED <<dragEnter, hasError>>
  /\ DragEvent

\* dragenter on the drop zone: its div's handler, then, the event bubbling,
\* the document's listener.
DragEnterDropZone(fileList) ==
  /\ dragging \in {None, Some(fileList)}
  /\ dragging' = Some(fileList)
  /\ handleDragEnterDropZone
  /\ handleDragEnter(fileList)
  /\ DragEvent

\* dragover anywhere on the page.
DragOver ==
  /\ dragging # None
  /\ handleDragOver
  /\ UNCHANGED <<dragging, dragEnter, hasError, draggedRejectedFiles>>
  /\ DragEvent

\* dragleave on an element outside the drop zone.
DragLeavePage ==
  /\ dragging # None
  /\ handleDragLeave
  /\ UNCHANGED <<dragging, dragEnter, hasError, draggedRejectedFiles>>
  /\ DragEvent

\* dragleave on the drop zone or on an element inside it: the div's
\* handler, then the document's listener.
DragLeaveDropZone(contains) ==
  /\ dragging # None
  /\ handleDragLeaveDropZone(contains)
  /\ handleDragLeave
  /\ UNCHANGED <<dragging, draggedRejectedFiles>>
  /\ DragEvent

\* The drag ends without a drop on the page (it leaves the window or is
\* cancelled): no handler of the drop zone runs.
DragEnd ==
  /\ dragging # None
  /\ dragging' = None
  /\ event' = None
  /\ drop' = None
  /\ cbLog' = <<>>
  /\ UNCHANGED <<props, filterValidFilesMemo, handleDropMemo, handleDragEnterMemo,
                 handleDragEnterDropZoneMemo, handleDragLeaveDropZoneMemo,
                 dragEnter, hasError, draggedRejectedFiles>>
  /\ UNCHANGED <<pvars, wvars, svars>>

\* The props a drop zone that watches drags is mounted with: every callback
\* given, no size limit.
GInit ==
  /\ props \in [accept : PropValues("accept"), allowMultiple : {TRUE},
                 minFileSize : {None}, maxFileSize : {None},
                 maxTotalFileSize : {None}, disabled : BOOLEAN,
                 onDrop : {TRUE}, onDropAccepted : {TRUE},
                 onDropRejected : {TRUE}, onDragEnter : {TRUE},
                 onDragOver : {TRUE}, onDragLeave : {TRUE}]
  /\ Mounted

DragRenderProps == {"accept", "disabled"}

GNext ==
  \/ \E prop \in DragRenderProps : \E value \in PropValues(prop) :
       \E newCallbacks \in BOOLEAN : Render(prop, value, newCallbacks)
  \/ \E fileList \in FileLists : DragEnterPage(fileList)
  \/ \E fileList \in FileLists : DragEnterDropZone(fileList)
  \/ DragOver
  \/ DragLeavePage
  \/ \E contains \in BOOLEAN : DragLeaveDropZone(contains)
  \/ DragEnd
  \/ \E fileList \in FileLists : handleDrop(fileList)

DNext ==
  \/ \E prop \in RenderProps : \E value \in PropValues(prop) :
       \E newCallbacks \in BOOLEAN : Render(prop, value, newCallbacks)
  \/ \E fileList \in FileLists : handleDrop(fileList)


(***************************************************************************)
(* PREVIEW SIZING  (src/components/Preview.tsx, spec 4.6)                  *)
(***************************************************************************)

\* What a Preview can be given in `dimensions` (None: the key is absent).
DimensionValues(key) ==
  CASE key = "imagePreviewMinHeight" -> {None, Some(40), Some(300)}
    [] key = "imagePreviewMaxHeight" -> {None, Some(100), Some(300)}
    [] key = "imagePreviewHeight" -> {None, Some(20), Some(500)}
    [] key = "imagePreviewZoomFactor" ->
         {None, Some(Rat(1, 2)), Some(Rat(1, 1)), Some(Rat(3, 1))}
    [] key = "imagePreviewUpscale" -> {None, Some(TRUE), Some(FALSE)}
    [] key = "panelAspectRatio" ->
         {Some(<<"1", ":", "2">>), Some(<<"4", ":", "3">>),
          Some(<<"1", "6", ":", "9">>)}

DimensionKeys == {"imagePreviewMinHeight", "imagePreviewMaxHeight",
                  "imagePreviewHeight", "imagePreviewZoomFactor",
                  "imagePreviewUpscale", "panelAspectRatio"}

ContainerWidths == {0, 120, 800}
ImageSizes == {Some([width |-> 20, height |-> 10]),
               Some([width |-> 2000, height |-> 1000])}

\* DIMENSION_DEFAULTS of utils/previewUtils (imported at Preview.tsx:12).
DIMENSION_DEFAULTS(key) ==
  CASE key = "imagePreviewMinHeight" -> Some(44)
    [] key = "imagePreviewMaxHeight" -> Some(256)
    [] key = "imagePreviewHeight" -> None
    [] key = "imagePreviewZoomFactor" -> Some(Rat(2, 1))
    [] key = "imagePreviewUpscale" -> Some(FALSE)
    [] OTHER -> None

\* The raw props, no defaults filled in.
rawDimensions(dimensions) == dimensions

\* const dimensionsData = {...DIMENSION_DEFAULTS, ...dimensions}
dimensionsData(dimensions) ==
  [key \in DimensionKeys |->
     IF dimensions[key] # None THEN dimensions[key] ELSE DIMENSION_DEFAULTS(key)]

\* clamp(value, min, max); a bound that is not a number bounds nothing.
clamp(value, min, max) ==
  LET lower == IF min # None /\ RLess(value, Rat(Val(min), 1))
               THEN Rat(Val(min), 1) ELSE value
  IN  IF max # None /\ RLess(Rat(Val(max), 1), lower)
      THEN Rat(Val(max), 1) ELSE lower

\* The rescale computation of useItemRescale (spec 4.6).
useItemRescale(d, panelLayout, containerWidth, imageSize) ==
  LET aspectRatio == IF panelLayout = "circle" THEN Rat(1, 1)
                     ELSE Val(getNumericAspectRatioFromString(Val(d.panelAspectRatio)))
      fixedHeight == d.imagePreviewHeight
      baseHeight == IF fixedHeight # None THEN Rat(Val(fixedHeight), 1)
                    ELSE RDiv(Rat(containerWidth, 1), aspectRatio)
      upscaleAllowed == d.imagePreviewUpscale = Some(TRUE)
      zoomFactor == IF d.imagePreviewZoomFactor = None THEN Rat(1, 1)
                    ELSE Val(d.imagePreviewZoomFactor)
      base == IF ~upscaleAllowed /\ imageSize # None
                 /\ RLess(Rat(Val(imageSize).height, 1), baseHeight)
              THEN Rat(Val(imageSize).height, 1) ELSE baseHeight
  IN  clamp(RMul(base, zoomFactor), d.imagePreviewMinHeight, d.imagePreviewMaxHeight)

\* Preview handing `dimensions` to the hook, as it does to usePreviewChecks,
\* for `dimensionsData`.
PreviewItemHeightRaw(z) ==
  useItemRescale(rawDimensions(z.dimensions), z.panelLayout, z.containerWidth,
                 z.imageSize)

\* Preview: const [itemHeight] = useItemRescale(structure.file,
\* dimensionsData, dropZoneContext.rootNode, imageSize)
PreviewItemHeight(z) ==
  useItemRescale(dimensionsData(z.dimensions), z.panelLayout, z.containerWidth,
                 z.imageSize)

\* STRUCTURE_DEFAULTS of utils/previewUtils (imported at Preview.tsx:12).
STRUCTURE_DEFAULTS(key) ==
  CASE key = "allowImagePreview" -> Some(TRUE)
    [] OTHER -> None

\* const structureData = {...STRUCTURE_DEFAULTS, ...structure}
structureData(s) ==
  [allowImagePreview |-> IF s.allowImagePreview # None THEN s.allowImagePreview
                         ELSE STRUCTURE_DEFAULTS("allowImagePreview"),
   file |-> s.file]

PreviewMaxFileSizes == {None, Some(4 * UnitBytes("MB")), Some(10 * UnitBytes("MB"))}

\* The type is one an image preview can be made of.
IsPreviewable(file) == file.type[1] = "image"

\* The second argument of usePreviewChecks(structure.file, dimensions):
\* `dimensions` as given, which has no allowImagePreview.
previewChecksOptions ==
  [allowImagePreview |-> None,
   imagePreviewMaxFileSize |-> imagePreviewMaxFileSize]

\* usePreviewChecks(file, options): disallowed = !allowImagePreview ||
\* fileSize > imagePreviewMaxFileSize || type not previewable (spec 4.6).
usePreviewChecks(file, options) ==
  LET allowImagePreview == IF options.allowImagePreview = None THEN absentAllows
                           ELSE Val(options.allowImagePreview)
  IN  \/ ~allowImagePreview
      \/ /\ options.imagePreviewMaxFileSize # None
         /\ file.size > Val(options.imagePreviewMaxFileSize)
      \/ ~IsPreviewable(file)

\* The output of a render that computed the height h:
\* {!isPreviewDisallowed && itemHeight && <ImagePreview />}
RenderOutput(h) ==
  /\ isPreviewDisallowed' = usePreviewChecks(structure.file, previewChecksOptions)
  /\ imagePreview' = (~isPreviewDisallowed' /\ h[1] # 0)
  /\ UNCHANGED cvars

\* Any structure, file and file size limit; nothing rendered yet.
CInit ==
  /\ structure \in [allowImagePreview : {None, Some(TRUE), Some(FALSE)},
                     file : DropFiles]
  /\ imagePreviewMaxFileSize \in PreviewMaxFileSizes
  /\ absentAllows \in BOOLEAN
  /\ isPreviewDisallowed = usePreviewChecks(structure.file, previewChecksOptions)
  /\ imagePreview = FALSE

\* A small image with nothing else given; nothing rendered yet.
CRest ==
  /\ structure = [allowImagePreview |-> None,
                  file |-> CHOOSE f \in DropFiles : f.name = "a.png"]
  /\ imagePreviewMaxFileSize = None
  /\ absentAllows = TRUE
  /\ isPreviewDisallowed = usePreviewChecks(structure.file, previewChecksOptions)
  /\ imagePreview = FALSE

SInit ==
  /\ CRest
  /\ sizing \in [dimensions :
                   [imagePreviewMinHeight : DimensionValues("imagePreviewMinHeight"),
                    imagePreviewMaxHeight : DimensionValues("imagePreviewMaxHeight"),
                    imagePreviewHeight : DimensionValues("imagePreviewHeight"),
                    imagePreviewZoomFactor : DimensionValues("imagePreviewZoomFactor"),
                    imagePreviewUpscale : DimensionValues("imagePreviewUpscale"),
                    panelAspectRatio : DimensionValues("panelAspectRatio")],
                 panelLayout : PanelLayouts,
                 containerWidth : ContainerWidths,
                 imageSize : {None}]
  /\ itemHeight = None

\* The Preview renders: the height is computed from the current inputs.
RenderPreview ==
  /\ itemHeight' = Some(PreviewItemHeight(sizing))
  /\ itemHeight' # itemHeight
  /\ RenderOutput(PreviewItemHeight(sizing))
  /\ UNCHANGED sizing
  /\ UNCHANGED <<wvars, dvars>>

\* The container is resized: the height is recomputed.
Resize(width) ==
  /\ width # sizing.containerWidth
  /\ sizing' = [sizing EXCEPT !.containerWidth = width]
  /\ itemHeight' = Some(PreviewItemHeight(sizing'))
  /\ RenderOutput(PreviewItemHeight(sizing'))
  /\ UNCHANGED <<wvars, dvars>>

\* useImageSize resolves the natural size: the height is recomputed.
ImageSizeArrives(size) ==
  /\ sizing.imageSize = None
  /\ sizing' = [sizing EXCEPT !.imageSize = size]
  /\ itemHeight' = Some(PreviewItemHeight(sizing'))
  /\ RenderOutput(PreviewItemHeight(sizing'))
  /\ UNCHANGED <<wvars, dvars>>

SNext ==
  \/ RenderPreview
  \/ \E width \in ContainerWidths : Resize(width)
  \/ \E size \in ImageSizes : ImageSizeArrives(size)

(***************************************************************************)
(* Specifications: one per component, the other components at rest.        *)
(***************************************************************************)

\* A drop zone just mounted with no props given, and a preview not yet sized.
HRest ==
  /\ props = [accept |-> None, allowMultiple |-> TRUE, minFileSize |-> None,
              maxFileSize |-> None, maxTotalFileSize |-> None,
              disabled |-> FALSE, onDrop |-> FALSE, onDropAccepted |-> FALSE,
              onDropRejected |-> FALSE, onDragEnter |-> FALSE,
              onDragOver |-> FALSE, onDragLeave |-> FALSE]
  /\ Mounted

DRest == HRest /\ PRest

ZRest ==
  /\ sizing = [dimensions |-> [k \in DimensionKeys |->
                                 IF k = "panelAspectRatio"
                                 THEN Some(<<"4", ":", "3">>)
                                 ELSE None],
               panelLayout |-> "integrated", containerWidth |-> 0,
               imageSize |-> None]
  /\ itemHeight = None

SRest == ZRest /\ CRest

InitWorker == WInit /\ DRest /\ SRest
InitDrop == DInit /\ WInit /\ SRest
InitSize == SInit /\ WInit /\ DRest
InitDrag == GInit /\ PRest /\ WInit /\ SRest
InitPanel == PInit /\ HRest /\ WInit /\ SRest
InitPreview == CInit /\ ZRest /\ WInit /\ DRest

\* The channel with a BitmapWorker behind it.
SpecWorker == InitWorker /\ [][WNext]_vars

\* The channel with a worker that also posts messages of its own.
SpecStray ==
  InitWorker /\ [][WNext \/ \E id \in getUniqueId : StrayMessage(id)]_vars

\* The channel used through post() and transfer().
SpecTransfer ==
  InitWorker /\ [][WNext \/ \E message \in Files : transfer(message)]_vars

\* The drop zone: renders and drops.
SpecDrop == InitDrop /\ [][DNext]_vars

\* The drop zone watching drags: renders, drag events and drops.
SpecDrag == InitDrag /\ [][GNext]_vars

\* The drop zone context: renders with every layout and ratio string.
SpecPanel == InitPanel /\ [][PNext]_vars

\* The preview: every structure, file and file size limit.
SpecPreview == InitPreview /\ [][SNext]_vars

\* The preview: every sizing input, then resizes and the image size arriving.
SpecSize == InitSize /\ [][SNext]_vars

(***************************************************************************)
(* Properties of the drop zone.                                            *)
(***************************************************************************)
Range(l) == {l[i] : i \in DOMAIN l}

IndexOf(file, fileList) == CHOOSE i \in DOMAIN fileList : fileList[i] = file

\* The files of l stand in l in the order they have in fileList.
InInputOrder(l, fileList) ==
  \A i, j \in DOMAIN l : i < j => IndexOf(l[i], fileList) < IndexOf(l[j], fileList)

RECURSIVE SumSizes(_)
SumSizes(l) == IF l = <<>> THEN 0 ELSE Head(l).size + SumSizes(Tail(l))

\* The handler that runs was made by the latest render from the latest props.
Fresh == handleDropMemo = NewHandleDrop(props, NewFilterValidFiles(props))

\* The files of fileList that pass the type and size checks of the props.
IndividuallyValid(fileList) ==
  LET valid(file) == FailedRule(file, props.accept, props.minFileSize,
                                props.maxFileSize) = "None"
  IN  SelectSeq(fileList, valid)

HasError(errors, file, kind) ==
  \E i \in DOMAIN errors : errors[i].file = file /\ errors[i].kind = kind

\* C4: the accepted and the rejected list of a drop are disjoint, together
\* hold exactly the dropped files, and each keeps the files in the order
\* they had in the dropped batch.
C4_PartitionInInputOrder ==
  drop # None =>
    LET r == Val(drop) IN
      /\ Range(r.acceptedFiles) \cap Range(r.rejectedFiles) = {}
      /\ Range(r.acceptedFiles) \cup Range(r.rejectedFiles) = Range(r.files)
      /\ Len(r.acceptedFiles) + Len(r.rejectedFiles) = Len(r.files)
      /\ InInputOrder(r.acceptedFiles, r.files)
      /\ InInputOrder(r.rejectedFiles, r.files)

\* C5: with allowMultiple false, of the k >= 1 individually valid files of
\* a drop exactly the first is accepted, the other k-1 are rejected, and the
\* errors given to onDrop hold a MultipleNotAllowed entry for each of them.
C5_OnlyFirstAcceptedOthersMultipleNotAllowed ==
  (drop # None /\ Fresh /\ ~props.allowMultiple) =>
    LET r == Val(drop)
        valid == IndividuallyValid(r.files)
    IN  Len(valid) >= 1 =>
          /\ r.acceptedFiles = <<valid[1]>>
          /\ \A i \in 2..Len(valid) :
               /\ valid[i] \in Range(r.rejectedFiles)
               /\ HasError(r.errors, valid[i], "MultipleNotAllowed")

\* C6: with maxTotalFileSize set the accepted files of a drop never sum to
\* more than it: of the individually valid files (the first of them alone
\* when allowMultiple is false) the longest leading run that fits is
\* accepted, and the rest are rejected with kind TotalSizeExceeded.
C6_TotalSizeRespected ==
  (drop # None /\ Fresh /\ props.maxTotalFileSize # None) =>
    LET r == Val(drop)
        limit == parseSize(Val(props.maxTotalFileSize))
        valid == IndividuallyValid(r.files)
        candidates == IF props.allowMultiple \/ valid = <<>> THEN valid
                      ELSE <<valid[1]>>
        fits == {n \in 0..Len(candidates) : SumSizes(SubSeq(candidates, 1, n)) <= limit}
        kept == CHOOSE n \in fits : \A m \in fits : m <= n
    IN  /\ SumSizes(r.acceptedFiles) <= limit
        /\ r.acceptedFiles = SubSeq(candidates, 1, kept)
        /\ \A i \in (kept + 1)..Len(candidates) :
             /\ candidates[i] \in Range(r.rejectedFiles)
             /\ HasError(r.errors, candidates[i], "TotalSizeExceeded")

Invoked(fn) == {i \in DOMAIN cbLog : cbLog[i].fn = fn}

\* C7: a drop handled while the drop zone is not disabled invokes onDrop,
\* when provided, exactly once, with the dropped files and the accepted,
\* rejected and error lists of that drop; onDropAccepted (onDropRejected)
\* exactly when it is provided and the accepted (rejected) list is not
\* empty; and onDrop before either of them.
C7_DropCallbacks ==
  (event # None /\ ~props.disabled) =>
    /\ drop # None
    /\ LET r == Val(drop) IN
         /\ r.files = Val(event)
         /\ Cardinality(Invoked("onDrop")) = IF props.onDrop THEN 1 ELSE 0
         /\ \A i \in Invoked("onDrop") :
              cbLog[i].args = <<r.files, r.acceptedFiles, r.rejectedFiles, r.errors>>
         /\ Invoked("onDropAccepted") # {}
              <=> (props.onDropAccepted /\ r.acceptedFiles # <<>>)
         /\ Invoked("onDropRejected") # {}
              <=> (props.onDropRejected /\ r.rejectedFiles # <<>>)
         /\ \A i \in Invoked("onDrop") :
              \A j \in Invoked("onDropAccepted") \cup Invoked("onDropRejected") : i < j

\* C7 witness: a drop, not disabled, with all three callbacks provided and
\* files on both lists: all three were invoked.
C7_Witness ==
  /\ event # None /\ ~props.disabled /\ drop # None
  /\ props.onDrop /\ props.onDropAccepted /\ props.onDropRejected
  /\ Val(drop).acceptedFiles # <<>> /\ Val(drop).rejectedFiles # <<>>
  /\ Len(cbLog) = 3

\* C16: a drop is validated against the accept, minFileSize, maxFileSize
\* and allowMultiple of the latest render: its lists and errors are those
\* the handler of a first render with the current props computes.
C16_DropUsesCurrentProps ==
  drop # None =>
    LET h == NewHandleDrop(props, NewFilterValidFiles(props))
        r == filterValidFiles(h.filterValidFiles, Val(event))
    IN  /\ Val(drop).acceptedFiles = r.acceptedFiles
        /\ Val(drop).rejectedFiles = r.rejectedFiles
        /\ Val(drop).errors = getValidationErrors(r.rejectedFiles, h.accept,
                                                  h.minFileSize, h.maxFileSize)

(***************************************************************************)
(* Properties of the preview sizing.                                       *)
(***************************************************************************)
\* The bounds in force: those given, else the defaults.
MinHeight == Val(dimensionsData(sizing.dimensions).imagePreviewMinHeight)
MaxHeight == Val(dimensionsData(sizing.dimensions).imagePreviewMaxHeight)

UpscaleAllowed ==
  dimensionsData(sizing.dimensions).imagePreviewUpscale = Some(TRUE)

NaturalHeight == Rat(Val(sizing.imageSize).height, 1)

\* baseHeight = fixedHeight ?? (containerWidth / aspectRatio)
BaseHeight ==
  LET d == dimensionsData(sizing.dimensions)
  IN  IF d.imagePreviewHeight # None THEN Rat(Val(d.imagePreviewHeight), 1)
      ELSE RDiv(Rat(sizing.containerWidth, 1),
                IF sizing.panelLayout = "circle" THEN Rat(1, 1)
                ELSE Val(getNumericAspectRatioFromString(Val(d.panelAspectRatio))))

\* C11: with upscaling not allowed and the natural image height known and
\* smaller than the base height, the height the rescale computation produced
\* does not exceed the natural image height, whatever the zoom factor and
\* the height bounds are.
C11_NeverAboveNaturalHeight ==
  (/\ itemHeight # None
   /\ sizing.imageSize # None
   /\ ~UpscaleAllowed
   /\ RLess(NaturalHeight, BaseHeight))
    => RLeq(Val(itemHeight), NaturalHeight)

(***************************************************************************)
(* Properties of the drop zone context.                                    *)
(***************************************************************************)
MaxRatioTerm == 22

RECURSIVE Decimal(_)
\* The decimal digits of n > 0.
Decimal(n) ==
  LET digit == CHOOSE c \in Digits : DigitValue(c) = n % 10
  IN  IF n < 10 THEN <<digit>> ELSE Append(Decimal(n \div 10), digit)

\* C12: with the circle layout the context carries the ratio 1, whatever
\* ratio string is configured, none and malformed ones included; with
\* another layout and a configured string "W:H" it carries W/H.
C12_PanelAspectRatio ==
  /\ panel.panelLayout = "circle" =>
       /\ contextValue # None
       /\ Val(contextValue).panelAspectRatio = Rat(1, 1)
  /\ \A W, H \in 1..MaxRatioTerm :
       (/\ panel.panelLayout # "circle"
        /\ panel.panelAspectRatio = Some(Decimal(W) \o <<":">> \o Decimal(H)))
         => /\ contextValue # None
            /\ Val(contextValue).panelAspectRatio = Rat(W, H)

\* C12 witness: the circle layout with a malformed ratio string.
C12_Witness ==
  /\ panel = [panelLayout |-> "circle", panelAspectRatio |-> Some(<<"x", ":">>)]
  /\ contextValue # None

(***************************************************************************)
(* Properties of the preview checks.                                       *)
(***************************************************************************)
\* disallowed, of the Preview's structure, file and file size limit.
Disallowed ==
  \/ ~Val(structureData(structure).allowImagePreview)
  \/ /\ imagePreviewMaxFileSize # None
     /\ structure.file.size > Val(imagePreviewMaxFileSize)
  \/ ~IsPreviewable(structure.file)

\* C13: the image preview is rendered only when the preview is not
\* disallowed; disallowed holds exactly when allowImagePreview is false, the
\* file is larger than imagePreviewMaxFileSize or its type is not
\* previewable; a Preview given allowImagePreview = false does not render
\* the image preview.  Stated of a Preview that has rendered.
C13_PreviewOnlyWhenAllowed ==
  itemHeight # None =>
    /\ imagePreview => ~isPreviewDisallowed
    /\ isPreviewDisallowed <=> Disallowed
    /\ structure.allowImagePreview = Some(FALSE) => ~imagePreview

(***************************************************************************)
(* Properties of the drop zone watching drags.                             *)
(***************************************************************************)
\* C17: while the disabled prop is true, no drag or drop event invokes a
\* callback of the user or changes dragEnter, hasError or the remembered
\* rejected files.
C17_DisabledIsInert ==
  [][props.disabled =>
       /\ cbLog' = <<>>
       /\ UNCHANGED <<dragEnter, hasError, draggedRejectedFiles>>]_hvars

\* The drag in progress carries a file the current props reject.
DragHasRejectedFile ==
  /\ dragging # None
  /\ filterValidFiles(NewFilterValidFiles(props), Val(dragging)).rejectedFiles
       # <<>>

\* C18: hasError becomes true only while the drag in progress carries a
\* rejected file: a drag of accepted files never shows the error view.
C18_ErrorOnlyForRejectedDrag ==
  [][(~hasError /\ hasError') => DragHasRejectedFile']_hvars

\* C19: hasError implies dragEnter; and right after a drop handled while not
\* disabled, dragEnter and hasError are false and no rejected file is
\* remembered.
C19_ErrorOnlyInsideAndDropResets ==
  /\ hasError => dragEnter
  /\ (event # None /\ ~props.disabled) =>
       (~dragEnter /\ ~hasError /\ draggedRejectedFiles = <<>>)

\* C19 witness: the error view is shown, a drag that entered the page with
\* a rejected file being over the drop zone.
C19_Witness ==
  /\ hasError /\ dragEnter
  /\ dragging # None
  /\ draggedRejectedFiles # <<>>
  /\ ~props.disabled

====
